---- MODULE Spec2Model ----
(***************************************************************************)
(* The real-time connection and broadcast subsystem of sermo:              *)
(* backend/app/api/v1/websockets.py (ConnectionManager and the /ws         *)
(* endpoint) together with the REST handlers that drive it                 *)
(* (create_message in messages.py, update_status in users.py).             *)
(*                                                                         *)
(* Every handler is one action: it runs from the frame (or request) it     *)
(* received to the point where it waits for the next one.                  *)
(***************************************************************************)
EXTENDS Integers, Sequences, FiniteSets, TLC

(* ----------------------------- bounds --------------------------------- *)
NumUsers == 2
NumChannels == 2
MaxConnections == 3
MaxVoiceConnections == 3
\* channels the suspended handlers of SpecTasks and SpecVoiceTasks use
NumTaskChannels == 1

Users == 1..NumUsers
Channels == 1..NumChannels
Transports == 1..MaxConnections
TaskChannels == 1..NumTaskChannels
VoiceTransports == 1..MaxVoiceConnections

\* "no websocket" / "no user" / "no channel" (Python None)
None == 0

(* --------------------- program constants ------------------------------ *)
VALID_STATUS_VALUES == {"online", "offline", "away", "busy"}

\* status values a client asks for in the model (one valid, one invalid)
StatusInputs == {"away", "invalid_status"}

\* websockets.py line 42 (no handler reads it)
MAX_MESSAGE_LENGTH == 4096

\* content lengths of the message frames a client sends in the model: the
\* shortest content, the longest one allowed and the first one too long
ContentLengths == {1, MAX_MESSAGE_LENGTH, MAX_MESSAGE_LENGTH + 1}

\* frames no branch of the read loop handles to its end: a type the loop does
\* not know, a join_channel frame without its channelId field (KeyError),
\* and text that is not JSON (JSONDecodeError)
BadFrames == {"unknown_type", "missing_field", "not_json"}

\* A token is the subject it names and whether its signature verifies; the
\* subjects are the stored users, 0 and an id no stored user has.
Tokens == [sub : 0..(NumUsers + 1), good : BOOLEAN]

\* close code of a server-side close for a violated policy (RFC 6455)
WS_1008_POLICY_VIOLATION == 1008

\* websocket_endpoint line 404: `await websocket.close(code=4001)`
AUTH_CLOSE_CODE == 4001

\* get_current_user_ws: decode_token raises for a signature that does not
\* verify; a subject of 0 and a subject no stored user has give None.
get_current_user_ws(token) ==
    IF ~token.good THEN None
    ELSE IF token.sub = 0 THEN None
    ELSE IF token.sub \notin Users THEN None
    ELSE token.sub

\* Channel.is_public of the external store: odd channel ids are public
\* channels, even ones are private.
is_public(c) == c % 2 = 1

\* Channel.members of the external store at start: every user is a durable
\* member of a public channel, user 1 is the only member of a private one.
InitialMembers(c) == IF is_public(c) THEN Users ELSE {1}

VARIABLES
    active_connections,   \* dict user_id -> WebSocket, in insertion order
    channel_members,      \* dict channel_id -> set of user_id
    channel_connections,  \* dict channel_id -> dict user_id -> WebSocket
    status,               \* User.status in the database
    db_members,           \* Channel.members in the database
    ws_user,              \* the user authenticated on each transport
    ws_open,              \* whether the transport can still carry frames
    pc,                   \* where the handler task of each transport is
    next_ws,              \* the next transport a client will open
    evicted,              \* history: transports replaced by a later connect
    announced,            \* history: presence announcements of each session
    last,                 \* history: what the last handler did
    task,                 \* the broadcast each handler task is suspended in
    first_frame,          \* history: first frame of each channel a transport got
    voice_channels,       \* websockets.py: dict channel_id -> set of WebSocket
    voice_channel_users,  \* websockets.py: dict channel_id -> set of user_id
    voice_states,         \* websockets.py: dict user_id -> muted, speaking
    vm_active_connections,   \* voice.py: channel_id -> dict user_id -> WebSocket
    vm_channel_participants, \* voice.py: channel_id -> users (keys of the dict)
    vm_voice_states,         \* voice.py: channel_id -> dict user_id -> VoiceState
    v_user,               \* the user authenticated on each voice transport
    v_chan,               \* the voice channel of each voice transport
    v_open,               \* whether the voice transport can still carry frames
    v_pc,                 \* where the handler task of each voice transport is
    v_next,               \* the next voice transport a client will open
    v_last,               \* history: what the last voice handler did
    v_task                \* the relay each voice handler task is suspended in

\* the variables of the /ws endpoint and its manager
chat == <<active_connections, channel_members, channel_connections, status,
          db_members, ws_user, ws_open, pc, next_ws, evicted, announced,
          last, task, first_frame>>

\* the dicts of the voice relay of websockets.py, those of the
\* VoiceConnectionManager of voice.py, and the voice transports
module_voice == <<voice_channels, voice_channel_users, voice_states>>
manager_voice == <<vm_active_connections, vm_channel_participants,
                   vm_voice_states>>
voice_transports == <<v_user, v_chan, v_open, v_pc, v_next, v_last,
                      v_task>>

vars == <<chat, module_voice, manager_voice, voice_transports>>

\* what the handlers of the /ws endpoint, taken one frame at a time (Spec),
\* leave alone
others == <<task, first_frame, module_voice, manager_voice, voice_transports>>

(* ------------------------ Python dicts -------------------------------- *)
\* A dict is the sequence of its <<key, value>> items in insertion order.
Keys(d) == {d[i][1] : i \in DOMAIN d}
Has(d, k) == k \in Keys(d)
Get(d, k) == d[CHOOSE i \in DOMAIN d : d[i][1] = k][2]
Put(d, k, v) ==
    IF Has(d, k)
    THEN [i \in DOMAIN d |-> IF d[i][1] = k THEN <<k, v>> ELSE d[i]]
    ELSE Append(d, <<k, v>>)
Del(d, k) == SelectSeq(d, LAMBDA p : p[1] # k)

\* the websockets of a sequence of items, in order
Sockets(d) == [i \in DOMAIN d |-> d[i][2]]
Range(s) == {s[i] : i \in DOMAIN s}
Count(s, x) == Cardinality({i \in DOMAIN s : s[i] = x})

\* the manager's three maps as one value
Manager == [ac |-> active_connections, cm |-> channel_members,
            cc |-> channel_connections]

(* -------------------- ConnectionManager ------------------------------- *)
\* connect without the loop of lines 92-94
connect_keeps_channel_items(m, websocket, user_id) ==
    [ old |-> IF Has(m.ac, user_id) THEN Get(m.ac, user_id) ELSE None,
      m   |-> [ ac |-> Put(m.ac, user_id, websocket), cm |-> m.cm,
                cc |-> m.cc ] ]

\* ConnectionManager.connect, lines 83-96: an existing connection of the user
\* is closed and its items are deleted from every channel_connections dict
\* (channel_members is not touched); then the new websocket is registered.
connect(m, websocket, user_id) ==
    LET had == Has(m.ac, user_id) IN
    [ old |-> IF had THEN Get(m.ac, user_id) ELSE None,
      m   |-> [ ac |-> Put(m.ac, user_id, websocket),
                cm |-> m.cm,
                cc |-> IF had
                       THEN [c \in DOMAIN m.cc |-> Del(m.cc[c], user_id)]
                       ELSE m.cc ] ]

\* disconnect without lines 120-121
disconnect_keeps_channel_items(m, user_id) ==
    LET touched == {c \in DOMAIN m.cm : user_id \in m.cm[c]}
        emptied == {c \in touched : m.cm[c] = {user_id}}
    IN  [ ac |-> Del(m.ac, user_id),
          cm |-> [c \in DOMAIN m.cm \ emptied |-> m.cm[c] \ {user_id}],
          cc |-> [c \in DOMAIN m.cc \ emptied |-> m.cc[c]] ]

\* disconnect whose loop over the channels stops after the first channel
\* it cleaned
disconnect_one_channel(m, user_id) ==
    LET all     == {c \in DOMAIN m.cm : user_id \in m.cm[c]}
        touched == {c \in all : \A d \in all : c <= d}
        emptied == {c \in touched : m.cm[c] = {user_id}}
    IN  [ ac |-> Del(m.ac, user_id),
          cm |-> [c \in DOMAIN m.cm \ emptied |->
                    IF c \in touched THEN m.cm[c] \ {user_id} ELSE m.cm[c]],
          cc |-> [c \in DOMAIN m.cc \ emptied |->
                    IF c \in touched THEN Del(m.cc[c], user_id) ELSE m.cc[c]] ]

\* ConnectionManager.disconnect
disconnect(m, user_id) ==
    LET touched == {c \in DOMAIN m.cm : user_id \in m.cm[c]}
        emptied == {c \in touched : m.cm[c] = {user_id}}
    IN  [ ac |-> Del(m.ac, user_id),
          cm |-> [c \in DOMAIN m.cm \ emptied |-> m.cm[c] \ {user_id}],
          cc |-> [c \in DOMAIN m.cc \ emptied |->
                    IF c \in touched THEN Del(m.cc[c], user_id) ELSE m.cc[c]] ]

\* ConnectionManager.join_channel, lines 137-144 (the maps)
join_channel(m, channel_id, user_id, websocket) ==
    LET members == IF channel_id \in DOMAIN m.cm THEN m.cm[channel_id] ELSE {}
        conns   == IF channel_id \in DOMAIN m.cc THEN m.cc[channel_id] ELSE <<>>
    IN  [ ac |-> m.ac,
          cm |-> [c \in DOMAIN m.cm \cup {channel_id} |->
                    IF c = channel_id THEN members \cup {user_id} ELSE m.cm[c]],
          cc |-> [c \in DOMAIN m.cc \cup {channel_id} |->
                    IF c = channel_id THEN Put(conns, user_id, websocket)
                    ELSE m.cc[c]] ]

\* leave_channel without lines 296-297
leave_channel_members_only(m, channel_id, user_id) ==
    IF channel_id \notin DOMAIN m.cm THEN m
    ELSE LET members == m.cm[channel_id] \ {user_id}
             gone    == IF members = {} THEN {channel_id} ELSE {}
         IN  [ ac |-> m.ac,
               cm |-> [c \in DOMAIN m.cm \ gone |->
                         IF c = channel_id THEN members ELSE m.cm[c]],
               cc |-> [c \in DOMAIN m.cc \ gone |-> m.cc[c]] ]

\* leave_channel without lines 299-303 (the clean-up of an empty channel)
leave_channel_keeps_empty_entry(m, channel_id, user_id) ==
    IF channel_id \notin DOMAIN m.cm THEN m
    ELSE [ ac |-> m.ac,
           cm |-> [c \in DOMAIN m.cm |->
                     IF c = channel_id THEN m.cm[c] \ {user_id} ELSE m.cm[c]],
           cc |-> [c \in DOMAIN m.cc |->
                     IF c = channel_id THEN Del(m.cc[c], user_id)
                     ELSE m.cc[c]] ]

\* ConnectionManager.leave_channel
leave_channel(m, channel_id, user_id) ==
    IF channel_id \notin DOMAIN m.cm THEN m
    ELSE LET members == m.cm[channel_id] \ {user_id}
             gone    == IF members = {} THEN {channel_id} ELSE {}
         IN  [ ac |-> m.ac,
               cm |-> [c \in DOMAIN m.cm \ gone |->
                         IF c = channel_id THEN members ELSE m.cm[c]],
               cc |-> [c \in DOMAIN m.cc \ gone |->
                         IF c = channel_id THEN Del(m.cc[c], user_id)
                         ELSE m.cc[c]] ]

\* the loop of broadcast_to_channel without lines 164-165
Targets_no_exclusion(conns, exclude_user_id) == conns

\* The items broadcast_to_channel sends to, in iteration order (lines 163-165):
\* `if exclude_user_id and user_id == exclude_user_id: continue`.
Targets(conns, exclude_user_id) ==
    SelectSeq(conns, LAMBDA p : ~(exclude_user_id # None /\ p[1] = exclude_user_id))

\* ConnectionManager.broadcast_to_channel.  A send on a transport that is no
\* longer open raises; the user is then removed from this channel's two maps.
\* sent: the websockets that got the frame, failed: those whose send raised.
broadcast_to_channel(m, open, channel_id, exclude_user_id) ==
    IF channel_id \notin DOMAIN m.cc
    THEN [ m |-> m, sent |-> <<>>, failed |-> <<>> ]
    ELSE LET targets == Targets(m.cc[channel_id], exclude_user_id)
             ok      == SelectSeq(targets, LAMBDA p : open[p[2]])
             bad     == SelectSeq(targets, LAMBDA p : ~open[p[2]])
             users_to_remove == Keys(bad)
         IN  [ m |-> [ ac |-> m.ac,
                       cm |-> [c \in DOMAIN m.cm |->
                                 IF c = channel_id
                                 THEN m.cm[c] \ users_to_remove ELSE m.cm[c]],
                       cc |-> [c \in DOMAIN m.cc |->
                                 IF c = channel_id
                                 THEN SelectSeq(m.cc[c],
                                        LAMBDA p : p[1] \notin users_to_remove)
                                 ELSE m.cc[c]] ],
               sent   |-> Sockets(ok),
               failed |-> Sockets(bad) ]

\* ConnectionManager.broadcast_presence: one send per registered websocket in
\* dict order, with no try/except: the first send that raises ends the loop
\* and the exception reaches the caller.
broadcast_presence(ac, open) ==
    LET bad   == {i \in DOMAIN ac : ~open[ac[i][2]]}
        first == IF bad = {} THEN Len(ac) + 1
                 ELSE CHOOSE i \in bad : \A j \in bad : i <= j
    IN  [ sent   |-> Sockets(SubSeq(ac, 1, first - 1)),
          failed |-> IF bad = {} THEN <<>> ELSE <<ac[first][2]>>,
          raised |-> bad # {} ]

(* ------------------------- bookkeeping -------------------------------- *)
\* What a handler did: the operation, who ran it, the status asked for or
\* announced (arg), the stored status it found (was), the frame answered to
\* the originator alone (reply), the fan-out it made (frame, the websockets
\* that got it and those whose send raised), and the maps the fan-out was
\* invoked on (members, conns); for a finally block, the channels its user
\* was a member of (chans); the close code of a connection the handler
\* closed (code), the content length of a message frame (size).
NoOp == [ op |-> "init", user |-> None, ws |-> None, chan |-> None,
          arg |-> "", was |-> "", old |-> None, reply |-> "none",
          frame |-> "none", chans |-> {}, code |-> 0, size |-> 0,
          sent |-> <<>>, failed |-> <<>>, members |-> {}, conns |-> <<>> ]

Tried(l) == Range(l.sent) \cup Range(l.failed)

SetManager(m) ==
    /\ active_connections' = m.ac
    /\ channel_members' = m.cm
    /\ channel_connections' = m.cc

MembersOf(m, c) == IF c \in DOMAIN m.cm THEN m.cm[c] ELSE {}
ConnsOf(m, c) == IF c \in DOMAIN m.cc THEN m.cc[c] ELSE <<>>
ChannelsOf(m, u) == {c \in DOMAIN m.cm : u \in m.cm[c]}

\* The iterator of a broadcast_to_channel loop that is suspended in a send:
\* the channel whose dict it walks, the size the dict had when the loop
\* began, how many items of the dict as it is now lie at or before the
\* iterator's place (pos), how many items it has yielded (count), whether
\* the dict object it walks was deleted from the manager (stale), and
\* users_to_remove.  History of the broadcast: the websockets its sends
\* reached, in order (seen); the websockets that have had an item in the
\* channel's dict ever since the broadcast was invoked (through); the tasks
\* whose broadcast to the same channel was invoked earlier and is still
\* running (after); the websockets that a broadcast invoked later has
\* already reached (overtaken).
NoTask == [ chan |-> None, size |-> 0, pos |-> 0, count |-> 0,
            stale |-> FALSE, remove |-> {}, seen |-> <<>>, through |-> {},
            after |-> {}, overtaken |-> {} ]

\* the flags a join gives a participant (websockets.py line 328, voice.py
\* line 49)
NewVoiceState == [muted |-> FALSE, speaking |-> FALSE]

\* What a voice handler did: the operation, its transport, user and channel,
\* the sender's muted flag (audio) or the flag asked for (state), the
\* websockets that got the audio, those that got a participants snapshot and
\* its content, those that got the announcement (join, leave or state), and
\* the websockets the relay held for the channel.
NoVoiceOp == [ op |-> "init", ws |-> None, user |-> None, chan |-> None,
               muted |-> FALSE, audio |-> <<>>, snap_to |-> <<>>,
               snap |-> <<>>, told |-> <<>>, present |-> {} ]

\* The set iterator of a relay loop of websockets.py (`for ws in
\* voice_channels[channel_id]`) that is suspended in a send: the event it
\* relays (kind), the size the set had when the loop began, the websockets
\* the iterator has yielded (done), whether the set object it walks was
\* deleted from voice_channels (stale), and whether the handler is leaving
\* because a relay raised (failed).  History of the relay: the websockets
\* its sends reached (seen) and the websockets that have been in the set
\* ever since the relay began (through).
NoVoiceTask == [ kind |-> "none", size |-> 0, done |-> {}, stale |-> FALSE,
                 failed |-> FALSE, seen |-> {}, through |-> {} ]

(* ------------------------------ Init ---------------------------------- *)
Init ==
    /\ active_connections = <<>>
    /\ channel_members = <<>>
    /\ channel_connections = <<>>
    /\ status = [u \in Users |-> "offline"]
    /\ db_members = [c \in Channels |-> InitialMembers(c)]
    /\ ws_user = [t \in Transports |-> None]
    /\ ws_open = [t \in Transports |-> FALSE]
    /\ pc = [t \in Transports |-> "new"]
    /\ next_ws = 1
    /\ evicted = {}
    /\ announced = [t \in Transports |-> <<>>]
    /\ last = NoOp
    /\ task = [t \in Transports |-> NoTask]
    /\ first_frame = [t \in Transports |-> [c \in Channels |-> "none"]]
    /\ voice_channels = <<>>
    /\ voice_channel_users = <<>>
    /\ voice_states = <<>>
    /\ vm_active_connections = <<>>
    /\ vm_channel_participants = <<>>
    /\ vm_voice_states = <<>>
    /\ v_user = [t \in VoiceTransports |-> None]
    /\ v_chan = [t \in VoiceTransports |-> None]
    /\ v_open = [t \in VoiceTransports |-> FALSE]
    /\ v_pc = [t \in VoiceTransports |-> "new"]
    /\ v_next = 1
    /\ v_last = NoVoiceOp
    /\ v_task = [t \in VoiceTransports |-> NoVoiceTask]

(* ------------------- the /ws endpoint, per connection ----------------- *)
\* lines 418-419: `user.status = "online"; db.commit()`
connect_status(stored) == "online"

\* a finally block that keeps a status the client chose
final_status_keeps_choice(stored) ==
    IF stored = "online" THEN "offline" ELSE stored

\* lines 487-488: `user.status = "offline"; db.commit()`
final_status(stored) == "offline"

\* websocket_endpoint, lines 400-420, for a token that authenticates as u:
\* accept, manager.connect, status online, announce it to every connection.
\* When the announcement raises the handler goes to its finally block.
Connect(u) ==
    /\ next_ws <= MaxConnections
    /\ LET t     == next_ws
           r     == connect(Manager, t, u)
           open1 == [x \in Transports |->
                       IF x = t THEN TRUE
                       ELSE IF x = r.old THEN FALSE ELSE ws_open[x]]
           p     == broadcast_presence(r.m.ac, open1)
       IN  /\ SetManager(r.m)
           /\ ws_open' = open1
           /\ ws_user' = [ws_user EXCEPT ![t] = u]
           /\ status' = [status EXCEPT ![u] = connect_status(status[u])]
           /\ pc' = [pc EXCEPT ![t] = IF p.raised THEN "closing" ELSE "loop"]
           /\ next_ws' = next_ws + 1
           /\ evicted' = IF r.old = None THEN evicted ELSE evicted \cup {r.old}
           /\ announced' = [announced EXCEPT ![t] = Append(@, "online")]
           /\ last' = [NoOp EXCEPT !.op = "connect", !.user = u, !.ws = t,
                         !.old = r.old, !.reply = "connection_established",
                         !.frame = "USER_STATUS", !.arg = "online",
                         !.was = status[u],
                         !.sent = p.sent, !.failed = p.failed,
                         !.conns = r.m.ac]
    /\ UNCHANGED db_members
    /\ UNCHANGED others

\* websocket_endpoint, lines 400-406 and 484-494, for a token that does not
\* authenticate: close(code=4001) and return before accept and before the
\* manager is touched; the finally block skips its `if user:` part and its
\* second close raises and is swallowed.
AuthFailure(token) ==
    /\ next_ws <= MaxConnections
    /\ get_current_user_ws(token) = None
    /\ pc' = [pc EXCEPT ![next_ws] = "rejected"]
    /\ next_ws' = next_ws + 1
    /\ last' = [NoOp EXCEPT !.op = "auth_failed", !.ws = next_ws,
                  !.code = AUTH_CLOSE_CODE]
    /\ UNCHANGED <<active_connections, channel_members, channel_connections,
                   status, db_members, ws_user, ws_open, evicted, announced>>
    /\ UNCHANGED others

\* the handler of t is in its read loop and its transport still delivers
Reading(t) == pc[t] = "loop" /\ ws_open[t]

\* lines 433-436: a join_channel frame
JoinFrame(t, c) ==
    /\ Reading(t)
    /\ SetManager(join_channel(Manager, c, ws_user[t], t))
    /\ last' = [NoOp EXCEPT !.op = "join", !.user = ws_user[t], !.ws = t,
                  !.chan = c, !.reply = "channel_joined",
                  !.members = MembersOf(Manager, c),
                  !.conns = ConnsOf(Manager, c)]
    /\ UNCHANGED <<status, db_members, ws_user, ws_open, pc, next_ws, evicted,
                   announced>>
    /\ UNCHANGED others

\* lines 438-441: a leave_channel frame
LeaveFrame(t, c) ==
    /\ Reading(t)
    /\ SetManager(leave_channel(Manager, c, ws_user[t]))
    /\ last' = [NoOp EXCEPT !.op = "leave", !.user = ws_user[t], !.ws = t,
                  !.chan = c, !.members = MembersOf(Manager, c),
                  !.conns = ConnsOf(Manager, c)]
    /\ UNCHANGED <<status, db_members, ws_user, ws_open, pc, next_ws, evicted,
                   announced>>
    /\ UNCHANGED others

\* lines 443-462: an add_reaction or remove_reaction frame; broadcast_reaction
\* calls broadcast_to_channel with no excluded user.
ReactionFrame(t, c) ==
    /\ Reading(t)
    /\ LET b == broadcast_to_channel(Manager, ws_open, c, None)
       IN  /\ SetManager(b.m)
           /\ last' = [NoOp EXCEPT !.op = "reaction", !.user = ws_user[t],
                         !.ws = t, !.chan = c, !.frame = "reaction",
                         !.sent = b.sent, !.failed = b.failed,
                         !.members = MembersOf(Manager, c),
                         !.conns = ConnsOf(Manager, c)]
    /\ UNCHANGED <<status, db_members, ws_user, ws_open, pc, next_ws, evicted,
                   announced>>
    /\ UNCHANGED others

\* lines 423-474: a status_update frame matches none of the branches of the
\* read loop; the loop goes on to the next frame.
StatusUpdateFrame(t, s) ==
    /\ Reading(t)
    /\ last' = [NoOp EXCEPT !.op = "status_frame", !.user = ws_user[t],
                  !.ws = t, !.arg = s, !.was = status[ws_user[t]]]
    /\ UNCHANGED <<active_connections, channel_members, channel_connections,
                   status, db_members, ws_user, ws_open, pc, next_ws, evicted,
                   announced>>
    /\ UNCHANGED others

\* lines 423-474: a frame that matches no branch of the read loop, a frame
\* whose handling raises before it changes anything (KeyError on a missing
\* field) and text that receive_json cannot parse all end in `continue`:
\* nothing is sent and the loop reads the next frame.
BadFrame(t, f) ==
    /\ Reading(t)
    /\ last' = [NoOp EXCEPT !.op = "bad_frame", !.user = ws_user[t],
                  !.ws = t, !.arg = f]
    /\ UNCHANGED <<active_connections, channel_members, channel_connections,
                   status, db_members, ws_user, ws_open, pc, next_ws, evicted,
                   announced>>
    /\ UNCHANGED others

\* lines 423-474: a `message` frame with content of n characters for channel
\* c matches no branch of the read loop either.
MessageFrame(t, c, n) ==
    /\ Reading(t)
    /\ last' = [NoOp EXCEPT !.op = "message_frame", !.user = ws_user[t],
                  !.ws = t, !.chan = c, !.size = n]
    /\ UNCHANGED <<active_connections, channel_members, channel_connections,
                   status, db_members, ws_user, ws_open, pc, next_ws, evicted,
                   announced>>
    /\ UNCHANGED others

\* the client (or the network) ends the transport of a running session; the
\* handler task learns of it when it next runs.
ClientClose(t) ==
    /\ Reading(t)
    /\ ws_open' = [ws_open EXCEPT ![t] = FALSE]
    /\ last' = [NoOp EXCEPT !.op = "client_close", !.user = ws_user[t], !.ws = t]
    /\ UNCHANGED <<active_connections, channel_members, channel_connections,
                   status, db_members, ws_user, pc, next_ws, evicted, announced>>
    /\ UNCHANGED others

\* lines 484-494: the finally block of a handler whose read raised (its
\* transport was closed) or whose connect sequence raised.
Finally(t) ==
    /\ \/ pc[t] = "loop" /\ ~ws_open[t]
       \/ pc[t] = "closing"
    /\ LET u == ws_user[t]
           m == disconnect(Manager, u)
           p == broadcast_presence(m.ac, ws_open)
       IN  /\ SetManager(m)
           /\ status' = [status EXCEPT ![u] = final_status(status[u])]
           /\ last' = [NoOp EXCEPT !.op = "finally", !.user = u, !.ws = t,
                         !.frame = "USER_STATUS", !.arg = "offline",
                         !.was = status[u],
                         !.sent = p.sent, !.failed = p.failed, !.conns = m.ac,
                         !.chans = ChannelsOf(Manager, u)]
    /\ ws_open' = [ws_open EXCEPT ![t] = FALSE]
    /\ pc' = [pc EXCEPT ![t] = "done"]
    /\ announced' = [announced EXCEPT ![t] = Append(@, "offline")]
    /\ UNCHANGED <<db_members, ws_user, next_ws, evicted>>
    /\ UNCHANGED others

(* --------------------------- REST handlers ---------------------------- *)
\* messages.py create_message: the channel must be public (the poster then
\* becomes a durable member) or the poster a member; the stored message is
\* broadcast with the poster excluded.
CreateMessage(u, c) ==
    /\ IF ~is_public(c) /\ u \notin db_members[c]
       THEN /\ last' = [NoOp EXCEPT !.op = "message", !.user = u, !.chan = c,
                          !.reply = "http_403"]
            /\ UNCHANGED <<active_connections, channel_members,
                           channel_connections, db_members>>
       ELSE LET b == broadcast_to_channel(Manager, ws_open, c, u)
            IN  /\ SetManager(b.m)
                /\ db_members' = [db_members EXCEPT ![c] = @ \cup {u}]
                /\ last' = [NoOp EXCEPT !.op = "message", !.user = u,
                              !.chan = c, !.reply = "http_200",
                              !.frame = "NEW_MESSAGE",
                              !.sent = b.sent, !.failed = b.failed,
                              !.members = MembersOf(Manager, c),
                              !.conns = ConnsOf(Manager, c)]
    /\ UNCHANGED <<status, ws_user, ws_open, pc, next_ws, evicted, announced>>
    /\ UNCHANGED others

\* users.py update_status (PUT /me/status)
UpdateStatus(u, s) ==
    /\ IF s \notin VALID_STATUS_VALUES
       THEN /\ status' = status
            /\ last' = [NoOp EXCEPT !.op = "update_status", !.user = u,
                          !.arg = s, !.was = status[u],
                          !.reply = "http_400"]
       ELSE /\ status' = [status EXCEPT ![u] = s]
            /\ last' = [NoOp EXCEPT !.op = "update_status", !.user = u,
                          !.arg = s, !.was = status[u],
                          !.reply = "http_200"]
    /\ UNCHANGED <<active_connections, channel_members, channel_connections,
                   db_members, ws_user, ws_open, pc, next_ws, evicted, announced>>
    /\ UNCHANGED others

Next ==
    \/ \E u \in Users : Connect(u)
    \/ \E token \in Tokens : AuthFailure(token)
    \/ \E t \in Transports, f \in BadFrames : BadFrame(t, f)
    \/ \E t \in Transports, c \in Channels, n \in ContentLengths :
          MessageFrame(t, c, n)
    \/ \E t \in Transports, c \in Channels : JoinFrame(t, c)
    \/ \E t \in Transports, c \in Channels : LeaveFrame(t, c)
    \/ \E t \in Transports, c \in Channels : ReactionFrame(t, c)
    \/ \E t \in Transports, s \in StatusInputs : StatusUpdateFrame(t, s)
    \/ \E t \in Transports : ClientClose(t)
    \/ \E t \in Transports : Finally(t)
    \/ \E u \in Users, c \in Channels : CreateMessage(u, c)
    \/ \E u \in Users, s \in StatusInputs : UpdateStatus(u, s)

Spec == Init /\ [][Next]_vars

(* ========= the handlers as tasks that suspend in their awaits ========== *)
\* In SpecTasks an action is what one handler task does from one suspension
\* to the next: the handlers of the other connections run in between.  The
\* awaits taken as suspensions are the ones inside join_channel and inside
\* the loop of broadcast_to_channel, and the close of the connection that
\* manager.connect found registered; the rest of the connect sequence and
\* the finally block run in one piece, as in Spec.  A frame is with its
\* transport once send_json has been called for it, and a transport keeps
\* the order of the calls.

\* histories of Spec that SpecTasks leaves alone
spec_only == <<db_members, evicted, announced, last, module_voice,
               manager_voice, voice_transports>>

\* join_channel suspended between its map updates and its send
join_yields_after_insert == TRUE

\* join_channel, lines 137-146: the map updates and the call of
\* `websocket.send_json(channel_joined)` run with no await between them.
join_yields_before_send == FALSE

\* first_frame after a frame of kind k for channel c went to transport t
Hand(ff, t, c, k) ==
    IF ff[t][c] = "none" THEN [ff EXCEPT ![t][c] = k] ELSE ff

\* A suspended dict iterator after another task changed the maps from m to
\* m2: deleting the channel's entry drops the dict object it walks, and a
\* deleted item that lay at or before its place no longer counts.
Rebase(it, m, m2) ==
    IF it.chan = None \/ it.stale \/ it.chan \notin DOMAIN m.cc THEN it
    ELSE IF it.chan \notin DOMAIN m2.cc
    THEN [it EXCEPT !.stale = TRUE, !.through = {}]
    ELSE [it EXCEPT !.pos =
            Cardinality({i \in 1..it.pos :
                           m.cc[it.chan][i][1] \in Keys(m2.cc[it.chan])}),
                    !.through = @ \cap Range(Sockets(m2.cc[it.chan]))]

\* The loop of broadcast_to_channel (lines 162-171) from iterator it up to
\* its next suspension.  The dict iterator raises RuntimeError when the dict
\* has another size than at the start of the loop or when it has yielded as
\* many items as the dict had and finds one more; a send that raises adds
\* the user to users_to_remove and the loop goes on; a send that succeeds is
\* where the task can be suspended.
RECURSIVE iterate(_, _, _)
iterate(m, open, it) ==
    IF it.stale \/ it.chan \notin DOMAIN m.cc
    THEN [ it |-> it, to |-> None, end |-> "raised" ]
    ELSE LET d == m.cc[it.chan]
         IN  IF Len(d) # it.size
             THEN [ it |-> it, to |-> None, end |-> "raised" ]
             ELSE IF it.pos >= Len(d)
             THEN [ it |-> it, to |-> None, end |-> "finished" ]
             ELSE IF it.count >= it.size
             THEN [ it |-> it, to |-> None, end |-> "raised" ]
             ELSE LET p   == d[it.pos + 1]
                      it2 == [it EXCEPT !.pos = @ + 1, !.count = @ + 1]
                  IN  IF open[p[2]]
                      THEN [ it |-> it2, to |-> p[2], end |-> "suspended" ]
                      ELSE iterate(m, open,
                                   [it2 EXCEPT !.remove = @ \cup {p[1]}])

\* lines 173-179: the clean-up loop over users_to_remove
cleanup(m, it) ==
    [ ac |-> m.ac,
      cm |-> [c \in DOMAIN m.cm |->
                IF c = it.chan THEN m.cm[c] \ it.remove ELSE m.cm[c]],
      cc |-> [c \in DOMAIN m.cc |->
                IF c = it.chan
                THEN SelectSeq(m.cc[c], LAMBDA p : p[1] \notin it.remove)
                ELSE m.cc[c]] ]

\* the maps become m2 by the task of transport t, whose own iterator
\* becomes it; the iterators of the other tasks follow
SetManagerBy(t, it, m2) ==
    /\ SetManager(m2)
    /\ task' = [x \in Transports |->
                  IF x = t THEN it ELSE Rebase(task[x], Manager, m2)]

\* the tasks once the broadcast of the task of t has ended
Ended(tasks, t) ==
    [x \in Transports |-> [tasks[x] EXCEPT !.after = @ \ {t}]]

\* the tasks, other than that of t, that are suspended in a broadcast to
\* channel c
Running(t, c) ==
    {x \in Transports \ {t} : pc[x] = "bcast" /\ task[x].chan = c}

\* the task of t runs its broadcast loop from iterator it to the next
\* suspension, to the RuntimeError that the outer try of broadcast_to_channel
\* swallows (line 180), or through the clean-up to the end
Advance(t, it) ==
    LET r == iterate(Manager, ws_open, it)
    IN  IF r.end = "suspended"
        THEN /\ task' = [x \in Transports |->
                           IF x = t THEN [r.it EXCEPT !.seen = Append(@, r.to)]
                           ELSE IF x \in it.after
                           THEN [task[x] EXCEPT !.overtaken = @ \cup {r.to}]
                           ELSE task[x]]
             /\ pc' = [pc EXCEPT ![t] = "bcast"]
             /\ first_frame' = Hand(first_frame, r.to, it.chan, "event")
             /\ UNCHANGED <<active_connections, channel_members,
                            channel_connections>>
        ELSE IF r.end = "raised"
        THEN /\ task' = Ended([task EXCEPT ![t] = NoTask], t)
             /\ pc' = [pc EXCEPT ![t] = "loop"]
             /\ UNCHANGED <<active_connections, channel_members,
                            channel_connections, first_frame>>
        ELSE LET m2 == cleanup(Manager, r.it)
             IN  /\ SetManager(m2)
                 /\ task' = Ended([x \in Transports |->
                                     IF x = t THEN NoTask
                                     ELSE Rebase(task[x], Manager, m2)], t)
                 /\ pc' = [pc EXCEPT ![t] = "loop"]
                 /\ UNCHANGED first_frame

\* websocket_endpoint, lines 400-420, for a token that authenticates as u.
\* With no connection of u registered the connect sequence runs in one
\* piece; with one, manager.connect is suspended in `await old_ws.close()`
\* (line 88) before it has changed any map.
TaskConnect(u) ==
    /\ next_ws <= MaxConnections
    /\ LET t == next_ws
       IN  IF Has(active_connections, u)
           THEN /\ ws_open' = [x \in Transports |->
                                 IF x = t THEN TRUE
                                 ELSE IF x = Get(active_connections, u)
                                 THEN FALSE ELSE ws_open[x]]
                /\ ws_user' = [ws_user EXCEPT ![t] = u]
                /\ pc' = [pc EXCEPT ![t] = "connect_close"]
                /\ next_ws' = next_ws + 1
                /\ UNCHANGED <<active_connections, channel_members,
                               channel_connections, status, task>>
           ELSE LET r     == connect(Manager, t, u)
                    open1 == [ws_open EXCEPT ![t] = TRUE]
                    p     == broadcast_presence(r.m.ac, open1)
                IN  /\ SetManagerBy(t, NoTask, r.m)
                    /\ ws_open' = open1
                    /\ ws_user' = [ws_user EXCEPT ![t] = u]
                    /\ status' = [status EXCEPT
                                    ![u] = connect_status(status[u])]
                    /\ pc' = [pc EXCEPT
                                ![t] = IF p.raised THEN "closing" ELSE "loop"]
                    /\ next_ws' = next_ws + 1
    /\ UNCHANGED <<first_frame, spec_only>>

\* manager.connect from its `await old_ws.close()` on (lines 91-103) and
\* websocket_endpoint lines 418-420: the items of the user are deleted from
\* every channel's dict, the websocket is registered over whatever the
\* registry holds for the user by now, connection_established is sent (the
\* send raises on a transport that was closed meanwhile), status online is
\* stored and announced.
TaskConnected(t) ==
    /\ pc[t] = "connect_close"
    /\ LET u  == ws_user[t]
           m2 == [ ac |-> Put(active_connections, u, t),
                   cm |-> channel_members,
                   cc |-> [c \in DOMAIN channel_connections |->
                             Del(channel_connections[c], u)] ]
           p  == broadcast_presence(m2.ac, ws_open)
       IN  /\ SetManagerBy(t, NoTask, m2)
           /\ status' = IF ws_open[t]
                         THEN [status EXCEPT ![u] = connect_status(status[u])]
                         ELSE status
           /\ pc' = [pc EXCEPT ![t] = IF p.raised THEN "closing" ELSE "loop"]
    /\ UNCHANGED <<ws_user, ws_open, next_ws, first_frame, spec_only>>

\* lines 433-436 and join_channel up to its await: the maps are updated and
\* the channel_joined frame goes to the transport
TaskJoin(t, c) ==
    /\ Reading(t)
    /\ SetManagerBy(t, [NoTask EXCEPT !.chan = c],
                    join_channel(Manager, c, ws_user[t], t))
    /\ IF join_yields_before_send
       THEN /\ pc' = [pc EXCEPT ![t] = "join_send"]
            /\ UNCHANGED first_frame
       ELSE /\ pc' = [pc EXCEPT ![t] = "join_await"]
            /\ first_frame' = Hand(first_frame, t, c, "channel_joined")
    /\ UNCHANGED <<status, ws_user, ws_open, next_ws, spec_only>>

\* join_channel from its await on: the send returns (or raises, which the
\* read loop's `except Exception: continue` swallows) and the handler is
\* back in its read loop
TaskJoined(t) ==
    /\ pc[t] \in {"join_send", "join_await"}
    /\ IF pc[t] = "join_send" /\ ws_open[t]
       THEN /\ pc' = [pc EXCEPT ![t] = "join_await"]
            /\ first_frame' = Hand(first_frame, t, task[t].chan,
                                   "channel_joined")
            /\ UNCHANGED task
       ELSE /\ pc' = [pc EXCEPT ![t] = "loop"]
            /\ task' = [task EXCEPT ![t] = NoTask]
            /\ UNCHANGED first_frame
    /\ UNCHANGED <<active_connections, channel_members, channel_connections,
                   status, ws_user, ws_open, next_ws, spec_only>>

\* lines 438-441: a leave_channel frame (no await)
TaskLeave(t, c) ==
    /\ Reading(t)
    /\ SetManagerBy(t, NoTask, leave_channel(Manager, c, ws_user[t]))
    /\ UNCHANGED <<status, ws_user, ws_open, pc, next_ws, first_frame,
                   spec_only>>

\* lines 443-462: a reaction frame; broadcast_to_channel runs up to its
\* first suspension
TaskReaction(t, c) ==
    /\ Reading(t)
    /\ c \in DOMAIN channel_connections
    /\ Advance(t, [NoTask EXCEPT !.chan = c,
                                 !.size = Len(channel_connections[c]),
                                 !.through =
                                     Range(Sockets(channel_connections[c])),
                                 !.after = Running(t, c)])
    /\ UNCHANGED <<status, ws_user, ws_open, next_ws, spec_only>>

\* the send the task of t was suspended in returns and its loop goes on
TaskStep(t) ==
    /\ pc[t] = "bcast"
    /\ Advance(t, task[t])
    /\ UNCHANGED <<status, ws_user, ws_open, next_ws, spec_only>>

\* the client (or the network) ends the transport, wherever its handler is
TaskClose(t) ==
    /\ ws_open[t]
    /\ ws_open' = [ws_open EXCEPT ![t] = FALSE]
    /\ UNCHANGED <<active_connections, channel_members, channel_connections,
                   status, ws_user, pc, next_ws, task, first_frame,
                   spec_only>>

\* lines 484-494: the finally block
TaskFinally(t) ==
    /\ \/ pc[t] = "loop" /\ ~ws_open[t]
       \/ pc[t] = "closing"
    /\ SetManagerBy(t, NoTask, disconnect(Manager, ws_user[t]))
    /\ status' = [status EXCEPT ![ws_user[t]] = final_status(@)]
    /\ ws_open' = [ws_open EXCEPT ![t] = FALSE]
    /\ pc' = [pc EXCEPT ![t] = "done"]
    /\ UNCHANGED <<ws_user, next_ws, first_frame, spec_only>>

NextTasks ==
    \/ \E u \in Users : TaskConnect(u)
    \/ \E t \in Transports : TaskConnected(t)
    \/ \E t \in Transports, c \in TaskChannels : TaskJoin(t, c)
    \/ \E t \in Transports : TaskJoined(t)
    \/ \E t \in Transports, c \in TaskChannels : TaskLeave(t, c)
    \/ \E t \in Transports, c \in TaskChannels : TaskReaction(t, c)
    \/ \E t \in Transports : TaskStep(t)
    \/ \E t \in Transports : TaskClose(t)
    \/ \E t \in Transports : TaskFinally(t)

SpecTasks == Init /\ [][NextTasks]_vars

(* ======================= the voice endpoints ========================== *)
\* The repository has two voice relays.  websockets.py serves
\* /ws/voice/{channel_id} with module-level dicts (voice_channels,
\* voice_channel_users, voice_states) and is the router main.py mounts;
\* voice.py serves /voice/{channel_id} with a VoiceConnectionManager.
\* SpecVoice is the first, SpecVoiceManager the second; both use the same
\* transports, and a handler is one action.

\* the elements of a set of transports, each once, lowest first
RECURSIVE InOrder(_)
InOrder(S) ==
    IF S = {} THEN <<>>
    ELSE LET x == CHOOSE y \in S : \A z \in S : y <= z
         IN  <<x>> \o InOrder(S \ {x})

\* the handler of voice transport t is in its receive loop and the
\* transport still carries frames
VoiceReading(t) == v_pc[t] = "loop" /\ v_open[t]

\* a dict of sets (or of dicts) with s as the value of key k
WithKey(d, k, s) == [x \in DOMAIN d \cup {k} |-> IF x = k THEN s ELSE d[x]]
WithoutKey(d, k) == [x \in DOMAIN d \ {k} |-> d[x]]
AtKey(d, k, empty) == IF k \in DOMAIN d THEN d[k] ELSE empty

(* ----------------- websockets.py: /ws/voice/{channel_id} -------------- *)
\* broadcast_voice_state_update: one send_json to every websocket of the
\* channel, each in its own try/except; the websockets that got the frame
voice_state_update_receivers(vc, open, channel_id) ==
    IF channel_id \in DOMAIN vc
    THEN InOrder({w \in vc[channel_id] : open[w]})
    ELSE <<>>

\* broadcast_voice, lines 354-362: send_bytes to every websocket of the
\* channel but the sender's; voice_states is not read.
broadcast_voice(vc, vs, open, sender_ws, sender, channel_id) ==
    IF channel_id \in DOMAIN vc
    THEN InOrder({w \in vc[channel_id] : w # sender_ws /\ open[w]})
    ELSE <<>>

\* voice_endpoint lines 503-530 and join_voice_channel, for a token that
\* authenticates as u and a channel that exists
VoiceJoin(u, c) ==
    /\ v_next <= MaxVoiceConnections
    /\ LET t   == v_next
           vc1 == WithKey(voice_channels, c,
                          AtKey(voice_channels, c, {}) \cup {t})
           open1 == [v_open EXCEPT ![t] = TRUE]
       IN  /\ voice_channels' = vc1
           /\ voice_channel_users' =
                 WithKey(voice_channel_users, c,
                         AtKey(voice_channel_users, c, {}) \cup {u})
           /\ voice_states' = WithKey(voice_states, u, NewVoiceState)
           /\ v_open' = open1
           /\ v_user' = [v_user EXCEPT ![t] = u]
           /\ v_chan' = [v_chan EXCEPT ![t] = c]
           /\ v_pc' = [v_pc EXCEPT ![t] = "loop"]
           /\ v_next' = v_next + 1
           /\ v_last' = [NoVoiceOp EXCEPT !.op = "join", !.ws = t,
                           !.user = u, !.chan = c,
                           !.told = voice_state_update_receivers(vc1, open1, c),
                           !.present = vc1[c]]
    /\ UNCHANGED <<manager_voice, chat, v_task>>

\* voice_endpoint lines 540-547: a binary frame
VoiceAudio(t) ==
    /\ VoiceReading(t)
    /\ v_last' = [NoVoiceOp EXCEPT !.op = "audio", !.ws = t,
                    !.user = v_user[t], !.chan = v_chan[t],
                    !.muted = AtKey(voice_states, v_user[t],
                                    NewVoiceState).muted,
                    !.audio = broadcast_voice(voice_channels, voice_states,
                                              v_open, t, v_user[t], v_chan[t]),
                    !.present = AtKey(voice_channels, v_chan[t], {})]
    /\ UNCHANGED <<voice_channels, voice_channel_users, voice_states, v_user,
                   v_chan, v_open, v_pc, v_next, manager_voice, chat, v_task>>

\* voice_endpoint lines 549-558 and update_voice_state: a voice_state frame
\* with both flags
VoiceStateFrame(t, muted, speaking) ==
    /\ VoiceReading(t)
    /\ IF v_user[t] \in DOMAIN voice_states
       THEN /\ voice_states' = [voice_states EXCEPT ![v_user[t]] =
                                  [muted |-> muted, speaking |-> speaking]]
            /\ v_last' = [NoVoiceOp EXCEPT !.op = "state", !.ws = t,
                            !.user = v_user[t], !.chan = v_chan[t],
                            !.muted = muted,
                            !.told = voice_state_update_receivers(
                                         voice_channels, v_open, v_chan[t]),
                            !.present = AtKey(voice_channels, v_chan[t], {})]
       ELSE /\ voice_states' = voice_states
            /\ v_last' = [NoVoiceOp EXCEPT !.op = "state", !.ws = t,
                            !.user = v_user[t], !.chan = v_chan[t],
                            !.present = AtKey(voice_channels, v_chan[t], {})]
    /\ UNCHANGED <<voice_channels, voice_channel_users, v_user, v_chan,
                   v_open, v_pc, v_next, manager_voice, chat, v_task>>

\* the client (or the network) ends a voice transport
VoiceClose(t) ==
    /\ VoiceReading(t)
    /\ v_open' = [v_open EXCEPT ![t] = FALSE]
    /\ v_last' = [NoVoiceOp EXCEPT !.op = "close", !.ws = t,
                    !.user = v_user[t], !.chan = v_chan[t]]
    /\ UNCHANGED <<voice_channels, voice_channel_users, voice_states, v_user,
                   v_chan, v_pc, v_next, manager_voice, chat, v_task>>

\* voice_endpoint lines 537-538 and 569-571: receive gives the disconnect
\* message, the loop breaks and the finally block calls leave_voice_channel
VoiceLeave(t) ==
    /\ v_pc[t] = "loop" /\ ~v_open[t]
    /\ LET c == v_chan[t]
           u == v_user[t]
       IN  IF c \in DOMAIN voice_channels
           THEN LET vc1 == WithKey(voice_channels, c, voice_channels[c] \ {t})
                IN  /\ voice_channels' =
                          IF vc1[c] = {} THEN WithoutKey(vc1, c) ELSE vc1
                    /\ voice_channel_users' =
                          IF vc1[c] = {} THEN WithoutKey(voice_channel_users, c)
                          ELSE WithKey(voice_channel_users, c,
                                       voice_channel_users[c] \ {u})
                    /\ voice_states' = WithoutKey(voice_states, u)
                    /\ v_last' = [NoVoiceOp EXCEPT !.op = "read_close", !.ws = t,
                                    !.user = u, !.chan = c,
                                    !.told = voice_state_update_receivers(
                                                 vc1, v_open, c),
                                    !.present = vc1[c]]
           ELSE /\ v_last' = [NoVoiceOp EXCEPT !.op = "read_close", !.ws = t,
                                !.user = u, !.chan = c]
                /\ UNCHANGED <<voice_channels, voice_channel_users,
                               voice_states>>
    /\ v_pc' = [v_pc EXCEPT ![t] = "done"]
    /\ UNCHANGED <<v_user, v_chan, v_open, v_next, manager_voice, chat, v_task>>

NextVoice ==
    \/ \E u \in Users, c \in Channels : VoiceJoin(u, c)
    \/ \E t \in VoiceTransports : VoiceAudio(t)
    \/ \E t \in VoiceTransports, muted \in BOOLEAN, speaking \in BOOLEAN :
          VoiceStateFrame(t, muted, speaking)
    \/ \E t \in VoiceTransports : VoiceClose(t)
    \/ \E t \in VoiceTransports : VoiceLeave(t)

SpecVoice == Init /\ [][NextVoice]_vars

(* ------------------ voice.py: /voice/{channel_id} --------------------- *)
\* VoiceConnectionManager.broadcast_to_channel: the websockets that got the
\* message (each send in its own try/except)
vm_receivers(ac, open, channel_id, exclude_user_id) ==
    IF channel_id \in DOMAIN ac
    THEN Sockets(SelectSeq(ac[channel_id],
                           LAMBDA p : p[1] # exclude_user_id /\ open[p[2]]))
    ELSE <<>>

\* VoiceConnectionManager.broadcast_voice_data, lines 106-127
broadcast_voice_data(ac, vs, open, channel_id, sender_id) ==
    IF channel_id \in DOMAIN ac
    THEN IF sender_id \notin DOMAIN vs[channel_id]
            \/ vs[channel_id][sender_id].muted
         THEN <<>>
         ELSE vm_receivers(ac, open, channel_id, sender_id)
    ELSE <<>>

\* voice_websocket lines 157-165 and VoiceConnectionManager.connect, for a
\* token that authenticates as u
VmConnect(u, c) ==
    /\ v_next <= MaxVoiceConnections
    /\ LET t    == v_next
           conns == AtKey(vm_active_connections, c, <<>>)
           old  == IF Has(conns, u) THEN Get(conns, u) ELSE None
           ac1  == WithKey(vm_active_connections, c, Put(conns, u, t))
           vs1  == WithKey(vm_voice_states, c,
                           WithKey(AtKey(vm_voice_states, c, <<>>), u,
                                   NewVoiceState))
           open1 == [x \in VoiceTransports |->
                       IF x = t THEN TRUE
                       ELSE IF x = old THEN FALSE ELSE v_open[x]]
       IN  /\ vm_active_connections' = ac1
           /\ vm_channel_participants' =
                 WithKey(vm_channel_participants, c,
                         AtKey(vm_channel_participants, c, {}) \cup {u})
           /\ vm_voice_states' = vs1
           /\ v_open' = open1
           /\ v_user' = [v_user EXCEPT ![t] = u]
           /\ v_chan' = [v_chan EXCEPT ![t] = c]
           /\ v_pc' = [v_pc EXCEPT ![t] = "loop"]
           /\ v_next' = v_next + 1
           /\ v_last' = [NoVoiceOp EXCEPT !.op = "join", !.ws = t,
                           !.user = u, !.chan = c,
                           !.snap_to = <<t>>, !.snap = vs1[c],
                           !.told = vm_receivers(ac1, open1, c, u),
                           !.present = Range(Sockets(ac1[c]))]
    /\ UNCHANGED <<module_voice, chat, v_task>>

\* voice_websocket lines 173-181: a binary frame
VmAudio(t) ==
    /\ VoiceReading(t)
    /\ v_last' = [NoVoiceOp EXCEPT !.op = "audio", !.ws = t,
                    !.user = v_user[t], !.chan = v_chan[t],
                    !.muted = AtKey(AtKey(vm_voice_states, v_chan[t], <<>>),
                                    v_user[t], NewVoiceState).muted,
                    !.audio = broadcast_voice_data(vm_active_connections,
                                  vm_voice_states, v_open, v_chan[t],
                                  v_user[t]),
                    !.present = Range(Sockets(AtKey(vm_active_connections,
                                                    v_chan[t], <<>>)))]
    /\ UNCHANGED <<vm_active_connections, vm_channel_participants,
                   vm_voice_states, v_user, v_chan, v_open, v_pc, v_next,
                   module_voice, chat, v_task>>

\* voice_websocket lines 188-204 and update_voice_state: a voice_state frame
\* whose payload has both flags; the frame is then sent to the whole channel
VmStateFrame(t, muted, speaking) ==
    /\ VoiceReading(t)
    /\ LET c == v_chan[t]
           u == v_user[t]
       IN  /\ vm_voice_states' =
                 IF c \in DOMAIN vm_voice_states
                    /\ u \in DOMAIN vm_voice_states[c]
                 THEN [vm_voice_states EXCEPT ![c][u] =
                         [muted |-> muted, speaking |-> speaking]]
                 ELSE vm_voice_states
           /\ v_last' = [NoVoiceOp EXCEPT !.op = "state", !.ws = t,
                           !.user = u, !.chan = c, !.muted = muted,
                           !.told = vm_receivers(vm_active_connections,
                                                 v_open, c, None),
                           !.present = Range(Sockets(AtKey(
                                           vm_active_connections, c, <<>>)))]
    /\ UNCHANGED <<vm_active_connections, vm_channel_participants, v_user,
                   v_chan, v_open, v_pc, v_next, module_voice, chat, v_task>>

\* the client (or the network) ends a voice transport
VmClose(t) ==
    /\ VoiceReading(t)
    /\ v_open' = [v_open EXCEPT ![t] = FALSE]
    /\ v_last' = [NoVoiceOp EXCEPT !.op = "close", !.ws = t,
                    !.user = v_user[t], !.chan = v_chan[t]]
    /\ UNCHANGED <<vm_active_connections, vm_channel_participants,
                   vm_voice_states, v_user, v_chan, v_pc, v_next,
                   module_voice, chat, v_task>>

\* voice_websocket lines 168-211 once the transport is closed: receive gives
\* the disconnect message, which has neither "bytes" nor "text", and every
\* later receive raises inside the inner try, whose `except Exception:
\* continue` (lines 209-211) sends the loop round again.  The handler never
\* gets to `except WebSocketDisconnect` (line 213), so manager.disconnect
\* and the leave message never run.
VmReadClose(t) ==
    /\ v_pc[t] = "loop" /\ ~v_open[t]
    /\ v_pc' = [v_pc EXCEPT ![t] = "spinning"]
    /\ v_last' = [NoVoiceOp EXCEPT !.op = "read_close", !.ws = t,
                    !.user = v_user[t], !.chan = v_chan[t],
                    !.present = Range(Sockets(AtKey(vm_active_connections,
                                                    v_chan[t], <<>>))) \ {t}]
    /\ UNCHANGED <<vm_active_connections, vm_channel_participants,
                   vm_voice_states, v_user, v_chan, v_open, v_next,
                   module_voice, chat, v_task>>

NextVoiceManager ==
    \/ \E u \in Users, c \in Channels : VmConnect(u, c)
    \/ \E t \in VoiceTransports : VmAudio(t)
    \/ \E t \in VoiceTransports, muted \in BOOLEAN, speaking \in BOOLEAN :
          VmStateFrame(t, muted, speaking)
    \/ \E t \in VoiceTransports : VmClose(t)
    \/ \E t \in VoiceTransports : VmReadClose(t)

SpecVoiceManager == Init /\ [][NextVoiceManager]_vars

(* ============================ claims ================================== *)
\* the websocket registered for user u, or None
Registered(u) == IF Has(active_connections, u) THEN Get(active_connections, u)
                 ELSE None

\* u has no item in channel_connections[c]
Unsubscribed(c, u) == u \notin Keys(ConnsOf(Manager, c))

ChannelBroadcasts == {"reaction", "message"}

\* C1 (as claimed): after a broadcast_to_channel with no excluded user, every
\* open registered connection of a user who was in channel_members[C] when
\* the broadcast was invoked got exactly one copy, and every connection that
\* got a copy belongs to a user of that member set.
C1_MembersReceiveOnce ==
    last.op = "reaction" =>
        /\ \A u \in last.members :
              (Registered(u) # None /\ ws_open[Registered(u)])
                  => Count(last.sent, Registered(u)) = 1
        /\ \A t \in Range(last.sent) : ws_user[t] \in last.members

\* C2: when connect(tB, U) completes and U had tA registered, tA is closed and
\* the registry maps U to tB; and no channel broadcast or presence
\* announcement made from then on attempts a send to a replaced transport.
C2_ReplacedTransportGetsNothing ==
    /\ (last.op = "connect" /\ last.old # None) =>
          /\ ~ws_open[last.old]
          /\ last.old \in evicted
          /\ Registered(last.user) = last.ws
    /\ last.frame # "none" => Tried(last) \cap evicted = {}

\* C2 witness: a channel broadcast reached someone while a replaced transport,
\* whose handler has not yet finished, still has its user in the member set.
C2_Witness ==
    /\ last.op \in ChannelBroadcasts
    /\ last.sent # <<>>
    /\ \E t \in evicted : pc[t] = "loop" /\ ws_user[t] \in last.members

C4_NoDeliveryAfterLeave ==
    [][ \A c \in Channels, u \in Users :
          /\ (last'.op = "leave" /\ last'.chan = c /\ last'.user = u)
                => Unsubscribed(c, u)'
          /\ (Unsubscribed(c, u)
                /\ ~(last'.op = "join" /\ last'.chan = c /\ last'.user = u))
                => Unsubscribed(c, u)'
          /\ (Unsubscribed(c, u) /\ last'.op \in ChannelBroadcasts
                /\ last'.chan = c)
                => \A t \in Tried(last') : ws_user[t] # u ]_vars

\* C4 witness: a user who was subscribed to a channel has left it over a
\* connection that stays open, and the channel keeps another subscriber.
C4_Witness ==
    /\ last.op = "leave"
    /\ last.user \in Keys(last.conns)
    /\ Reading(last.ws)
    /\ ConnsOf(Manager, last.chan) # <<>>

\* C5: right after disconnect(U) (the finally block of a handler of U), U is
\* in no registry item, in no channel's member set and in no channel's
\* connection map.
C5_DisconnectRemovesEverywhere ==
    last.op = "finally" =>
        /\ ~Has(active_connections, last.user)
        /\ \A c \in DOMAIN channel_members : last.user \notin channel_members[c]
        /\ \A c \in DOMAIN channel_connections :
              ~Has(channel_connections[c], last.user)

\* C5 witness: the user was a member of two channels when its handler ended.
C5_Witness == last.op = "finally" /\ Cardinality(last.chans) >= 2

\* C6: disconnect is idempotent: in every state a second disconnect(U) leaves
\* the maps as the first one did, a disconnect(U) repeated right after a
\* handler's finally block changes nothing, and every connection gets at
\* most one offline announcement, exactly one once its handler has ended.
C6_DisconnectIdempotent ==
    /\ \A u \in Users :
          disconnect(disconnect(Manager, u), u) = disconnect(Manager, u)
    /\ last.op = "finally" => disconnect(Manager, last.user) = Manager
    /\ \A t \in Transports :
          /\ Count(announced[t], "offline") <= 1
          /\ pc[t] = "done" => Count(announced[t], "offline") = 1

\* C6 witness: the handler of a transport that a reconnect had replaced has
\* run its finally block, and its user had joined two channels.
C6_Witness ==
    /\ last.op = "finally"
    /\ last.ws \in evicted
    /\ Cardinality(last.chans) >= 2

C8_StatusFrameAnnounced ==
    (last.op = "status_frame" /\ last.arg \in VALID_STATUS_VALUES) =>
        /\ status[last.user] = last.arg
        /\ last.frame = "USER_STATUS"
        /\ \A t \in Transports : Reading(t) => Count(last.sent, t) = 1

\* C9 (as claimed): a status update with a value outside VALID_STATUS_VALUES,
\* sent as a frame or as a request, is answered with an error to the caller,
\* leaves the stored status as it was and announces nothing.
C9_InvalidStatusRejected ==
    (last.op \in {"status_frame", "update_status"}
        /\ last.arg \notin VALID_STATUS_VALUES) =>
        /\ last.reply \in {"error", "http_400"}
        /\ status[last.user] = last.was
        /\ Tried(last) = {}

\* C10 (as claimed): every subscription held by the manager is for a public
\* channel or a durable member, and a join_channel frame for a private
\* channel from a non-member creates none and is answered with an error.
C10_SubscriptionsAuthorized ==
    /\ \A c \in DOMAIN channel_members : \A u \in channel_members[c] :
          is_public(c) \/ u \in db_members[c]
    /\ \A c \in DOMAIN channel_connections :
          \A u \in Keys(channel_connections[c]) :
              is_public(c) \/ u \in db_members[c]
    /\ (last.op = "join" /\ ~is_public(last.chan)
          /\ last.user \notin db_members[last.chan]) =>
          /\ last.reply = "error"
          /\ last.user \notin MembersOf(Manager, last.chan)

\* C12: a connection attempt whose token fails authentication is closed with
\* close code 4001, never becomes a registered or subscribed transport, and
\* leaves the registry, the channel maps and every stored status as they
\* were; nothing is announced.
C12_AuthFailureChangesNothing ==
    [][ last'.op = "auth_failed" =>
          /\ last'.code = 4001
          /\ pc'[last'.ws] = "rejected"
          /\ ~ws_open'[last'.ws]
          /\ ws_user'[last'.ws] = None
          /\ active_connections' = active_connections
          /\ channel_members' = channel_members
          /\ channel_connections' = channel_connections
          /\ status' = status
          /\ announced' = announced
          /\ last'.frame = "none" /\ Tried(last') = {} ]_vars

\* C12 witness: an attempt was rejected while another user is connected,
\* online and subscribed to a channel.
C12_Witness ==
    /\ last.op = "auth_failed"
    /\ active_connections # <<>>
    /\ \E c \in DOMAIN channel_connections : channel_connections[c] # <<>>
    /\ \E u \in Users : status[u] = "online"

\* C13 (as claimed): a frame of an unknown type or a malformed frame is
\* answered with an error frame sent to the originating connection alone,
\* changes no registry or membership state, and leaves the connection in its
\* read loop.
C13_BadFrameAnswered ==
    [][ last'.op = "bad_frame" =>
          /\ last'.reply = "error"
          /\ Tried(last') = {}
          /\ active_connections' = active_connections
          /\ channel_members' = channel_members
          /\ channel_connections' = channel_connections
          /\ pc'[last'.ws] = "loop" /\ ws_open'[last'.ws] ]_vars

C18_MessageLengthLimit ==
    last.op = "message_frame" =>
        /\ last.size > MAX_MESSAGE_LENGTH =>
              /\ last.reply = "error"
              /\ last.frame = "none" /\ Tried(last) = {}
              /\ Reading(last.ws)
        /\ last.size \in 1..MAX_MESSAGE_LENGTH =>
              /\ last.reply # "error"
              /\ last.frame = "NEW_MESSAGE"

\* C19 (as claimed): every transport a channel broadcast delivers a frame to
\* is, at that moment, the websocket the registry holds for its user (the
\* broadcast leaves the registry as it is, so the registry after the
\* broadcast is the registry of the send).
C19_BroadcastOnlyToRegistered ==
    last.op \in ChannelBroadcasts =>
        \A t \in Range(last.sent) : Registered(ws_user[t]) = t

\* C20 (as claimed): in a channel broadcast and in a presence announcement,
\* every target whose transport is open gets the frame, whatever happened to
\* the sends to the other targets.
C20_FailureIsolated ==
    /\ last.op \in ChannelBroadcasts =>
          \A i \in DOMAIN last.conns :
              (ws_open[last.conns[i][2]]
                  /\ ~(last.op = "message" /\ last.conns[i][1] = last.user))
                  => last.conns[i][2] \in Range(last.sent)
    /\ last.frame = "USER_STATUS" =>
          \A i \in DOMAIN last.conns :
              ws_open[last.conns[i][2]]
                  => last.conns[i][2] \in Range(last.sent)

\* C11: the first frame of channel C that a transport gets is never a channel
\* event: a transport gets events of C only after its channel_joined for C,
\* also when the broadcasts of other tasks run while its join is suspended
\* in its send, or while they are themselves suspended in theirs.
C11_JoinedBeforeEvents ==
    /\ \A t \in Transports, c \in Channels : first_frame[t][c] # "event"
    /\ \A c \in DOMAIN channel_connections :
          \A i \in DOMAIN channel_connections[c] :
              first_frame[channel_connections[c][i][2]][c] = "channel_joined"

\* C11 witness: the join of tA is still suspended in the send of its
\* channel_joined while the broadcast of another task, begun after tA's item
\* was put in the channel's dict, is suspended in its send of an event to tA.
C11_Witness ==
    \E tA \in Transports, tB \in Transports :
        /\ tA # tB
        /\ pc[tA] = "join_await"
        /\ pc[tB] = "bcast"
        /\ task[tB].chan = task[tA].chan
        /\ ~task[tB].stale
        /\ task[tB].chan \in DOMAIN channel_connections
        /\ task[tB].pos \in DOMAIN channel_connections[task[tB].chan]
        /\ channel_connections[task[tB].chan][task[tB].pos][2] = tA
        /\ ws_open[tA]

\* the transports other than t whose handler has joined voice channel c and
\* not left it, and that still carry frames
JoinedOpen(c, t) ==
    {w \in VoiceTransports :
        w # t /\ v_chan[w] = c /\ v_pc[w] = "loop" /\ v_open[w]}

\* the users whose handler has joined voice channel c and not left it
JoinedUsers(c) ==
    {v_user[w] : w \in {x \in VoiceTransports :
                          v_chan[x] = c /\ v_pc[x] = "loop"}}

\* the flags the relay holds for user u in voice channel c
FlagsOf(c, u) ==
    IF c \in DOMAIN vm_voice_states /\ u \in DOMAIN vm_voice_states[c]
    THEN vm_voice_states[c][u]
    ELSE AtKey(voice_states, u, NewVoiceState)

\* C15 (as claimed): a binary frame of participant P of voice channel V goes
\* to no connection when P's muted flag is true, and exactly once to each
\* other joined participant of V when it is false; never to P itself and
\* never to a transport that is not a joined participant of V.
C15_AudioRelay ==
    v_last.op = "audio" =>
        /\ v_last.muted => v_last.audio = <<>>
        /\ ~v_last.muted =>
              \A w \in JoinedOpen(v_last.chan, v_last.ws) :
                  Count(v_last.audio, w) = 1
        /\ Range(v_last.audio) \subseteq JoinedOpen(v_last.chan, v_last.ws)

\* C16 (as claimed): when U joins voice channel V, U's transport and no other
\* gets one snapshot that lists the participants joined to V with their
\* flags, every other joined participant gets one join announcement for U,
\* and U's transport gets none.
C16_JoinSnapshot ==
    v_last.op = "join" =>
        /\ v_last.snap_to = <<v_last.ws>>
        /\ DOMAIN v_last.snap = JoinedUsers(v_last.chan)
        /\ \A u \in DOMAIN v_last.snap :
              v_last.snap[u] = FlagsOf(v_last.chan, u)
        /\ \A w \in JoinedOpen(v_last.chan, v_last.ws) :
              Count(v_last.told, w) = 1
        /\ v_last.ws \notin Range(v_last.told)

\* C17 (as claimed), for the state in which the handler of a closed voice
\* transport of U has taken the close from its receive, U having no other
\* handler in V: the relay holds no connection, no participant entry and no
\* voice state of U for V, and every remaining joined participant of V got
\* one leave announcement.
C17_ClosedParticipantLeaves ==
    (/\ v_last.op = "read_close"
     /\ \A w \in VoiceTransports \ {v_last.ws} :
           ~(v_user[w] = v_last.user /\ v_chan[w] = v_last.chan
               /\ v_pc[w] = "loop")) =>
        /\ v_last.ws \notin AtKey(voice_channels, v_last.chan, {})
        /\ ~Has(AtKey(vm_active_connections, v_last.chan, <<>>), v_last.user)
        /\ v_last.user \notin AtKey(voice_channel_users, v_last.chan, {})
        /\ v_last.user \notin AtKey(vm_channel_participants, v_last.chan, {})
        /\ v_last.user \notin DOMAIN voice_states
        /\ v_last.user \notin DOMAIN AtKey(vm_voice_states, v_last.chan, <<>>)
        /\ \A w \in JoinedOpen(v_last.chan, v_last.ws) :
              Count(v_last.told, w) = 1

\* C21 (as claimed): once a channel broadcast in which the send to a
\* connection of user U raised has returned, U has no item in the registry
\* and is in no channel's member set and in no channel's connection map.
C21_FailedDeliveryRemovesEverywhere ==
    last.op \in ChannelBroadcasts =>
        \A t \in Range(last.failed) :
            /\ ~Has(active_connections, ws_user[t])
            /\ \A c \in DOMAIN channel_members :
                  ws_user[t] \notin channel_members[c]
            /\ \A c \in DOMAIN channel_connections :
                  ~Has(channel_connections[c], ws_user[t])

\* C22 (as claimed): of two broadcasts to one channel, the one invoked first
\* reaches every connection that gets both before the other does, also when
\* their tasks interleave at their sends: no send of a broadcast reaches a
\* websocket that a broadcast invoked later has already reached.
C22_BroadcastOrderKept ==
    [][ \A t \in Transports, w \in Transports :
          task'[t].seen = Append(task[t].seen, w)
              => w \notin task[t].overtaken ]_vars

\* C23 (as claimed): when the broadcast of a task ends, every websocket that
\* has had an item in the channel's dict ever since the broadcast was invoked
\* and is still open was reached by exactly one of its sends, whatever joins,
\* leaves, connects and finally blocks of other tasks ran between its sends.
C23_InterleavedBroadcastComplete ==
    [][ \A t \in Transports :
          (pc[t] = "bcast" /\ pc'[t] # "bcast") =>
              \A w \in task[t].through :
                  ws_open[w] => Count(task[t].seen, w) = 1 ]_vars

\* the websocket of each item of channel_connections[c], in maps m
SocketsOf(m, c) == Range(Sockets(ConnsOf(m, c)))

\* C24 (as claimed): the finally block of the handler of a transport that a
\* later connect of its user had replaced leaves every other transport that
\* is registered and open in the registry, and leaves every item a channel's
\* dict holds for such a transport where it is.
C24_EvictedTeardownSparesSuccessor ==
    [][ (last'.op = "finally" /\ last'.ws \in evicted) =>
          \A tB \in Transports \ {last'.ws} :
              (Reading(tB) /\ Registered(ws_user[tB]) = tB) =>
                  /\ Registered(ws_user[tB])' = tB
                  /\ \A c \in Channels :
                        tB \in SocketsOf(Manager, c)
                            => tB \in SocketsOf(Manager, c)' ]_vars

\* C25 (as claimed): whenever a registration replaces the websocket the
\* registry held for a user by another one, also in a connect that was
\* suspended while another connect of the same user ran, the replaced
\* websocket is closed: no open transport is superseded.
C25_SupersededIsClosed ==
    [][ \A u \in Users :
          (Registered(u) # None /\ Registered(u)' # None
              /\ Registered(u)' # Registered(u))
              => ~ws_open'[Registered(u)] ]_vars

\* the relay holds a participant record (muted, speaking) of user u for
\* voice channel c
HasVoiceRecord(c, u) ==
    \/ c \in DOMAIN vm_voice_states /\ u \in DOMAIN vm_voice_states[c]
    \/ u \in AtKey(voice_channel_users, c, {}) /\ u \in DOMAIN voice_states

\* C26 (as claimed): after every step the relay holds a participant record
\* of U for V exactly if U is joined to V, and the flags of a record that
\* stays change only in the step of a voice_state frame of U sent on V.
C26_VoiceRecordOwned ==
    [][ \A c \in Channels, u \in Users :
          /\ HasVoiceRecord(c, u)' <=> (u \in JoinedUsers(c))'
          /\ (HasVoiceRecord(c, u) /\ HasVoiceRecord(c, u)'
                /\ FlagsOf(c, u)' # FlagsOf(c, u))
                => (v_last'.op = "state" /\ v_last'.user = u
                      /\ v_last'.chan = c) ]_vars

\* C27 (as claimed): for every channel the users keyed in
\* channel_connections[C] are the users of channel_members[C], and every
\* websocket stored there is the one active_connections holds for its user.
C27_MapsAgree ==
    \A c \in Channels :
        /\ Keys(ConnsOf(Manager, c)) = MembersOf(Manager, c)
        /\ \A i \in DOMAIN ConnsOf(Manager, c) :
              Registered(ConnsOf(Manager, c)[i][1]) = ConnsOf(Manager, c)[i][2]

\* C28 (as claimed): while a transport of U is open with its handler in the
\* read loop, U's stored status is not offline (no request of the model asks
\* for offline); and when the handler of a replaced transport of U has run
\* its finally block while the transport that replaced it is open and in its
\* read loop, the stored status of U is online and the presence announcement
\* made last for U says online.
C28_OnlineWhileConnected ==
    /\ \A t \in Transports : Reading(t) => status[ws_user[t]] # "offline"
    /\ (/\ last.op = "finally"
        /\ last.ws \in evicted
        /\ \E tB \in Transports \ evicted :
              Reading(tB) /\ ws_user[tB] = last.user) =>
          /\ status[last.user] = "online"
          /\ last.arg = "online"

\* C29 (as claimed): a reaction frame for channel C from a user who, when the
\* frame arrives, is neither in channel_members[C] nor keyed in
\* channel_connections[C] is sent to no connection.
C29_ReactionOnlyFromSubscriber ==
    (/\ last.op = "reaction"
     /\ last.user \notin last.members
     /\ last.user \notin Keys(last.conns)) => Tried(last) = {}

(* ====== the handlers of /ws/voice as tasks that suspend in their sends === *)
\* In SpecVoiceTasks an action is what one handler task of voice_endpoint
\* (websockets.py) does from one suspension to the next.  The awaits taken as
\* suspensions are the sends of broadcast_voice and of
\* broadcast_voice_state_update that reach an open transport.  The iterator
\* of a set yields the websockets lowest first.

\* the relays that carry a frame of a participant: an audio frame and the
\* announcement of a voice_state frame
FrameRelays == {"audio", "state_changed"}

\* the iterator of a relay of kind k that begins on the set s
VStart(k, s, failed) ==
    [NoVoiceTask EXCEPT !.kind = k, !.size = Cardinality(s), !.through = s,
                        !.failed = failed]

\* A suspended set iterator of a relay on channel c after another task
\* changed voice_channels to vc2.
VRebase(it, c, vc2) ==
    IF it.kind = "none" \/ it.stale THEN it
    ELSE IF c \notin DOMAIN vc2 THEN [it EXCEPT !.stale = TRUE, !.through = {}]
    ELSE [it EXCEPT !.through = @ \cap vc2[c]]

\* The for loop of broadcast_voice (lines 357-362) and of
\* broadcast_voice_state_update (lines 374-378) from iterator it to its next
\* suspension.  The set iterator raises RuntimeError when the set has
\* another size than at the start of the loop; broadcast_voice skips the
\* sender's websocket; a send that raises is logged and the loop goes on; a
\* send that succeeds is where the task can be suspended.
RECURSIVE v_iterate(_, _, _, _, _)
v_iterate(vc, open, c, sender_ws, it) ==
    IF it.stale \/ c \notin DOMAIN vc \/ Cardinality(vc[c]) # it.size
    THEN [ it |-> it, end |-> "raised" ]
    ELSE IF vc[c] \ it.done = {}
    THEN [ it |-> it, end |-> "finished" ]
    ELSE LET w   == CHOOSE x \in vc[c] \ it.done :
                        \A y \in vc[c] \ it.done : x <= y
             it2 == [it EXCEPT !.done = @ \cup {w}]
         IN  IF (it.kind = "audio" /\ w = sender_ws) \/ ~open[w]
             THEN v_iterate(vc, open, c, sender_ws, it2)
             ELSE [ it |-> [it2 EXCEPT !.seen = @ \cup {w}],
                    end |-> "suspended" ]

\* the state of the relay of websockets.py and of the handler of t after a
\* step of that handler
VoiceOutcome(vc, vcu, vs, open, it, p) ==
    [ vc |-> vc, vcu |-> vcu, vs |-> vs, open |-> open, it |-> it, pc |-> p ]

\* VoiceRun: the handler of t on channel c runs the relay of iterator it.
\*   suspended: the handler waits in the send.
\*   finished:  a relay of the receive loop returns to the loop; the "left"
\*              relay of leave_voice_channel is followed by the clean-up of
\*              an empty channel (lines 348-350) and the handler ends, with
\*              close(1011) when it was leaving because a relay had raised.
\*   raised:    the RuntimeError of the iterator leaves broadcast_voice or
\*              broadcast_voice_state_update.  Raised in join_voice_channel
\*              (line 529, outside the inner try) or in leave_voice_channel
\*              (line 571, in the finally block) it reaches the outer
\*              `except Exception` (lines 573-575): close(1011).  Raised in a
\*              relay of the receive loop it is neither a ValidationError nor
\*              a JSONDecodeError nor a WebSocketDisconnect: the finally
\*              block runs leave_voice_channel and the outer except closes
\*              the connection with 1011.
\* VoiceLeaving: leave_voice_channel (lines 334-352) for the websocket t of
\* user u.
RECURSIVE VoiceRun(_, _, _, _, _, _, _, _)
RECURSIVE VoiceLeaving(_, _, _, _, _, _, _, _)
VoiceRun(t, u, c, vc, vcu, vs, open, it) ==
    LET r      == v_iterate(vc, open, c, t, it)
        closed == [open EXCEPT ![t] = FALSE]
    IN  IF r.end = "suspended"
        THEN VoiceOutcome(vc, vcu, vs, open, r.it, "relay")
        ELSE IF r.end = "finished"
        THEN IF it.kind = "left"
             THEN IF vc[c] = {}
                  THEN VoiceOutcome(WithoutKey(vc, c), WithoutKey(vcu, c), vs,
                                    closed, NoVoiceTask, "done")
                  ELSE VoiceOutcome(vc, vcu, vs, closed, NoVoiceTask, "done")
             ELSE VoiceOutcome(vc, vcu, vs, open, NoVoiceTask, "loop")
        ELSE IF it.kind \in FrameRelays
        THEN VoiceLeaving(t, u, c, vc, vcu, vs, open, TRUE)
        ELSE VoiceOutcome(vc, vcu, vs, closed, NoVoiceTask, "done")

VoiceLeaving(t, u, c, vc, vcu, vs, open, failed) ==
    IF c \notin DOMAIN vc
    THEN VoiceOutcome(vc, vcu, vs, [open EXCEPT ![t] = FALSE], NoVoiceTask,
                      "done")
    ELSE LET vc1 == WithKey(vc, c, vc[c] \ {t})
         IN  VoiceRun(t, u, c, vc1, WithKey(vcu, c, vcu[c] \ {u}),
                      WithoutKey(vs, u), open,
                      VStart("left", vc1[c], failed))

\* the step of the handler of t has outcome r; the iterators of the other
\* tasks follow
VoiceApply(t, r) ==
    /\ voice_channels' = r.vc
    /\ voice_channel_users' = r.vcu
    /\ voice_states' = r.vs
    /\ v_open' = r.open
    /\ v_pc' = [v_pc EXCEPT ![t] = r.pc]
    /\ v_task' = [x \in VoiceTransports |->
                    IF x = t THEN r.it ELSE VRebase(v_task[x], v_chan[x], r.vc)]

\* voice_endpoint lines 503-530 and join_voice_channel up to the first
\* suspension of its "joined" relay
VtJoin(u, c) ==
    /\ v_next <= MaxVoiceConnections
    /\ LET t   == v_next
           vc1 == WithKey(voice_channels, c,
                          AtKey(voice_channels, c, {}) \cup {t})
       IN  /\ VoiceApply(t, VoiceRun(t, u, c, vc1,
                    WithKey(voice_channel_users, c,
                            AtKey(voice_channel_users, c, {}) \cup {u}),
                    WithKey(voice_states, u, NewVoiceState),
                    [v_open EXCEPT ![t] = TRUE],
                    VStart("joined", vc1[c], FALSE)))
           /\ v_user' = [v_user EXCEPT ![t] = u]
           /\ v_chan' = [v_chan EXCEPT ![t] = c]
           /\ v_next' = v_next + 1
    /\ UNCHANGED <<v_last, manager_voice, chat>>

\* voice_endpoint lines 540-547: a binary frame, up to the first suspension
\* of broadcast_voice
VtAudio(t) ==
    /\ VoiceReading(t)
    /\ VoiceApply(t, VoiceRun(t, v_user[t], v_chan[t], voice_channels,
                              voice_channel_users, voice_states, v_open,
                              VStart("audio",
                                     AtKey(voice_channels, v_chan[t], {}),
                                     FALSE)))
    /\ UNCHANGED <<v_user, v_chan, v_next, v_last, manager_voice, chat>>

\* voice_endpoint lines 549-558 and update_voice_state, up to the first
\* suspension of the "state_changed" relay; a user with no item in
\* voice_states gets no update and no relay
VtStateFrame(t, muted, speaking) ==
    /\ VoiceReading(t)
    /\ v_user[t] \in DOMAIN voice_states
    /\ VoiceApply(t, VoiceRun(t, v_user[t], v_chan[t], voice_channels,
                              voice_channel_users,
                              [voice_states EXCEPT ![v_user[t]] =
                                 [muted |-> muted, speaking |-> speaking]],
                              v_open,
                              VStart("state_changed",
                                     AtKey(voice_channels, v_chan[t], {}),
                                     FALSE)))
    /\ UNCHANGED <<v_user, v_chan, v_next, v_last, manager_voice, chat>>

\* the send the task of t was suspended in returns and its relay goes on
VtStep(t) ==
    /\ v_pc[t] = "relay"
    /\ VoiceApply(t, VoiceRun(t, v_user[t], v_chan[t], voice_channels,
                              voice_channel_users, voice_states, v_open,
                              v_task[t]))
    /\ UNCHANGED <<v_user, v_chan, v_next, v_last, manager_voice, chat>>

\* the client (or the network) ends a voice transport, wherever its handler
\* is
VtClose(t) ==
    /\ v_open[t]
    /\ v_pc[t] \in {"loop", "relay"}
    /\ v_open' = [v_open EXCEPT ![t] = FALSE]
    /\ UNCHANGED <<voice_channels, voice_channel_users, voice_states, v_user,
                   v_chan, v_pc, v_next, v_last, v_task, manager_voice, chat>>

\* voice_endpoint lines 537-538 and 569-571: receive gives the disconnect
\* message, the loop breaks and the finally block runs leave_voice_channel
VtLeave(t) ==
    /\ v_pc[t] = "loop" /\ ~v_open[t]
    /\ VoiceApply(t, VoiceLeaving(t, v_user[t], v_chan[t], voice_channels,
                                  voice_channel_users, voice_states, v_open,
                                  FALSE))
    /\ UNCHANGED <<v_user, v_chan, v_next, v_last, manager_voice, chat>>

NextVoiceTasks ==
    \/ \E u \in Users, c \in TaskChannels : VtJoin(u, c)
    \/ \E t \in VoiceTransports : VtAudio(t)
    \/ \E t \in VoiceTransports, muted \in BOOLEAN, speaking \in BOOLEAN :
          VtStateFrame(t, muted, speaking)
    \/ \E t \in VoiceTransports : VtStep(t)
    \/ \E t \in VoiceTransports : VtClose(t)
    \/ \E t \in VoiceTransports : VtLeave(t)

SpecVoiceTasks == Init /\ [][NextVoiceTasks]_vars

\* C30 (as claimed): when the relay of an audio frame or of a voice_state
\* announcement that was suspended in a send ends, whatever joins and leaves
\* of other tasks ran between its sends, the sender's handler is back in its
\* receive loop and every websocket that has been in the channel's set ever
\* since the relay began and is open (the sender's own, for audio, left
\* aside) was reached by one of its sends.
C30_RelaySurvivesJoinLeave ==
    [][ \A t \in VoiceTransports :
          (/\ v_pc[t] = "relay"
           /\ v_task[t].kind \in FrameRelays
           /\ ~(v_pc'[t] = "relay" /\ v_task'[t].kind = v_task[t].kind)) =>
              /\ v_pc'[t] = "loop"
              /\ \A w \in v_task[t].through :
                    (v_open[w] /\ ~(v_task[t].kind = "audio" /\ w = t))
                        => w \in v_task[t].seen ]_vars

====
